---- MODULE Spec2Model ----
(***************************************************************************)
(* Task management API: the auth router (register, login) and the task     *)
(* router (list, get, create, update, delete) over the users and tasks     *)
(* tables, as state machines.  One action models one whole HTTP request;   *)
(* `last` holds the exchange the server answered most recently.            *)
(*                                                                         *)
(* SpecRegister and SpecRace split a request at its awaits, one action per *)
(* SQL statement, and SpecFrontend runs the TaskManager component against  *)
(* the task router; `calls` holds the requests and handler calls that have *)
(* started, `ui` the component's state.                                    *)
(*                                                                         *)
(* Time is counted in ticks of 24 hours, the lifetime of a token.          *)
(* Request bodies hold strings only, as the routes' OpenAPI schemas        *)
(* declare; a field a body does not carry is Undefined.                    *)
(***************************************************************************)
EXTENDS Integers, Sequences, FiniteSets, TLC

VARIABLES users, tasks, nextTaskId, now, last, calls, ui

vars == <<users, tasks, nextTaskId, now, last, calls, ui>>

(* ------------------------------ bounds -------------------------------- *)
MaxClock == 1
MaxTasks == 2
MaxCalls == 2
MaxClicks == 4

(* --------------------------- program constants ------------------------ *)
MinPasswordLen == 6
TokenTTL == 1

(* ------------------------- optional values ---------------------------- *)
\* A JavaScript value that may be undefined, or an SQL value that may be NULL:
\* the empty set when it is missing, {v} when it is v.
Undefined == {}
NULL == {}
Val(v) == {v}
Get(o) == CHOOSE v \in o : TRUE
\* if (x): a string is truthy when it is defined and not ''.
Truthy(o) == o # Undefined /\ o # Val("")
\* mysql2 binds an undefined parameter as NULL.
SqlParam(o) == IF o = Undefined THEN NULL ELSE o

StatusEnum == {"pending", "in-progress", "completed"}

(* ------------------------------ inputs -------------------------------- *)
Usernames == {"", "alice", "bob"}
Emails == {<<"a", "@", "x.com">>, <<"b", "@", "x.com">>, <<"a", "x.com">>}
Passwords == {<<>>, <<1, 2, 3, 4, 5>>, <<1, 2, 3, 4, 5, 6>>, <<6, 5, 4, 3, 2, 1>>}
Salts == {"s1", "s2"}

(* ----------------------------- validators ----------------------------- *)
\* express-validator notEmpty() on a string.
notEmpty(s) == s # ""
\* express-validator isEmail(): one '@' with a local part before it and a
\* domain after it.
isEmail(e) ==
    /\ Cardinality({i \in 1..Len(e) : e[i] = "@"}) = 1
    /\ \E i \in 2..(Len(e) - 1) : e[i] = "@"
\* express-validator isLength({ min }).
isLength(p, min) == Len(p) >= min

(* ------------------------------- bcrypt ------------------------------- *)
\* bcrypt.hash(password, salt): the salt is part of the hash string.
bcryptHash(password, salt) == [salt |-> salt, digest |-> <<salt, password>>]
\* bcrypt.compare(password, hash): rehash with the salt the hash carries.
bcryptCompare(password, hash) == bcryptHash(password, hash.salt) = hash

(* -------------------------------- jwt --------------------------------- *)
\* jwt.sign(payload, secret, { expiresIn: '24h' }).
jwtSign(id, username, role, iat) ==
    [kind |-> "jwt", id |-> id, username |-> username, role |-> role,
     exp |-> iat + TokenTTL]

NoUser == [id |-> 0, username |-> "", role |-> ""]
\* A request without an Authorization header, and one with an administrator's
\* claims signed with another secret.
NoToken == [kind |-> "none"]
Forged == [kind |-> "forged", id |-> 1, username |-> "root", role |-> "admin",
           exp |-> MaxClock + TokenTTL + 1]

\* The auth middleware: req.user is the claims of a token this server signed
\* that has not expired; any other request is answered 401 (NoUser here).
auth(token, time) ==
    IF token.kind = "jwt" /\ time < token.exp
    THEN [id |-> token.id, username |-> token.username, role |-> token.role]
    ELSE NoUser

\* Every token the server can have issued by now: register and login sign the
\* id, username and role of a stored user, at any time since that user exists.
IssuedTokens ==
    UNION {{jwtSign(i, users[i].username, users[i].role, iat) :
                iat \in users[i].created_at..now} : i \in DOMAIN users}

Tokens == IssuedTokens \cup {NoToken, Forged}

\* What a request presented, as the exchange records it: the kind of its
\* token and whether the token's expiry has passed.
Presented(token, time) ==
    [kind |-> token.kind, expired |-> token.kind = "jwt" /\ time >= token.exp]

(* ----------------------------- users table ---------------------------- *)
AdminRow ==
    [username |-> "root", email |-> <<"root", "@", "x.com">>,
     password |-> bcryptHash(<<6, 5, 4, 3, 2, 1>>, "s1"),
     role |-> "admin", created_at |-> 0]

\* A lookup that forgets the username.
SelectUsersByEmailOnly(email, username) ==
    {i \in DOMAIN users : users[i].email = email}

\* SELECT * FROM users WHERE email = ? OR username = ?
SelectUsersByEmailOrUsername(email, username) ==
    {i \in DOMAIN users : users[i].email = email \/ users[i].username = username}

\* SELECT * FROM users WHERE email = ?
SelectUsersByEmail(email) == {i \in DOMAIN users : users[i].email = email}

\* INSERT INTO users (username, email, password): the id is the next
\* auto-increment value, the role the column's default.
InsertUser(username, email, hashedPassword) ==
    Append(users, [username |-> username, email |-> email,
                   password |-> hashedPassword, role |-> "user",
                   created_at |-> now])

(* ------------------------------ auth router --------------------------- *)
RegisterErrors(username, email, password) ==
    (IF notEmpty(username) THEN {} ELSE {"Username is required"})
    \cup (IF isEmail(email) THEN {} ELSE {"Valid email is required"})
    \cup (IF isLength(password, MinPasswordLen) THEN {}
          ELSE {"Password must be at least 6 characters"})

\* POST /api/auth/register
Register(username, email, password) ==
    LET req == [op |-> "register", username |-> username, email |-> email,
                password |-> password]
        errors == RegisterErrors(username, email, password)
        existing == SelectUsersByEmailOrUsername(email, username)
        insertId == Len(users) + 1
    IN  /\ UNCHANGED <<tasks, nextTaskId, now>>
        /\ IF errors # {}
           THEN /\ last' = [req |-> req, code |-> 400, errors |-> errors]
                /\ UNCHANGED users
           ELSE IF existing # {}
           THEN /\ last' = [req |-> req, code |-> 400,
                            message |-> "User already exists"]
                /\ UNCHANGED users
           ELSE /\ \E salt \in Salts :
                       users' = InsertUser(username, email, bcryptHash(password, salt))
                /\ last' = [req |-> req, code |-> 201,
                            message |-> "User registered successfully",
                            token |-> jwtSign(insertId, username, "user", now),
                            user |-> [id |-> insertId, username |-> username,
                                      email |-> email, role |-> "user"]]

LoginErrors(email, password) ==
    (IF isEmail(email) THEN {} ELSE {"Valid email is required"})
    \cup (IF Len(password) > 0 THEN {} ELSE {"Password is required"})

\* An answer that tells the caller the email is not registered.
LoginUserNotFound(req) == [req |-> req, code |-> 404, message |-> "User not found"]

\* The answer of login when no user has the email.
LoginNoUser(req) == [req |-> req, code |-> 401, message |-> "Invalid credentials"]

\* The answer of login when the password does not match the stored hash.
LoginNoMatch(req) == [req |-> req, code |-> 401, message |-> "Invalid credentials"]

\* A token with the role register signs, whatever the stored role.
LoginTokenRoleUser(id, user, iat) == jwtSign(id, user.username, "user", iat)

\* The token login signs for the user it found.
LoginToken(id, user, iat) == jwtSign(id, user.username, user.role, iat)

\* POST /api/auth/login
Login(email, password) ==
    LET req == [op |-> "login", email |-> email, password |-> password]
        errors == LoginErrors(email, password)
        found == SelectUsersByEmail(email)
    IN  /\ UNCHANGED <<users, tasks, nextTaskId, now>>
        /\ IF errors # {}
           THEN last' = [req |-> req, code |-> 400, errors |-> errors]
           ELSE IF found = {}
           THEN last' = LoginNoUser(req)
           ELSE \E i \in found :
                LET user == users[i]
                IN  IF ~bcryptCompare(password, user.password)
                    THEN last' = LoginNoMatch(req)
                    ELSE last' = [req |-> req, code |-> 200,
                                  message |-> "Login successful",
                                  token |-> LoginToken(i, user, now),
                                  user |-> [id |-> i, username |-> user.username,
                                            email |-> user.email, role |-> user.role]]

(* ----------------------------- tasks table ---------------------------- *)
\* SELECT * FROM tasks WHERE id = ?
SelectTaskById(id) == {t \in tasks : t.id = id}

\* SELECT t.*, u.username FROM tasks t JOIN users u ON t.user_id = u.id
JoinUsers(rows) ==
    {[id |-> t.id, title |-> t.title, description |-> t.description,
      status |-> t.status, user_id |-> t.user_id, created_at |-> t.created_at,
      username |-> users[t.user_id].username] :
        t \in {r \in rows : r.user_id \in DOMAIN users}}

\* The rows oldest first.
OrderByCreatedAtAsc(rows) ==
    {s \in [1..Cardinality(rows) -> rows] :
        /\ \A i, j \in DOMAIN s : i # j => s[i] # s[j]
        /\ \A i, j \in DOMAIN s : i < j => s[i].created_at <= s[j].created_at}

\* ORDER BY t.created_at DESC: every order of the rows in which no row comes
\* before a row created later; rows of one timestamp come in any order.
OrderByCreatedAtDesc(rows) ==
    {s \in [1..Cardinality(rows) -> rows] :
        /\ \A i, j \in DOMAIN s : i # j => s[i] # s[j]
        /\ \A i, j \in DOMAIN s : i < j => s[i].created_at >= s[j].created_at}

\* INSERT INTO tasks (title, description, status, user_id): the id is the
\* next auto-increment value, created_at the time of the statement.
InsertTask(title, description, status, user_id) ==
    tasks \cup {[id |-> nextTaskId, title |-> title,
                 description |-> SqlParam(description), status |-> status,
                 user_id |-> user_id, created_at |-> now]}

\* DELETE FROM tasks WHERE id = ?
DeleteTaskById(id) == {t \in tasks : t.id # id}

(* ------------------------------ task router --------------------------- *)
\* rows[0] of a SELECT by id.
First(rows) == CHOOSE t \in rows : TRUE

Unauthorized(req) == [req |-> req, user |-> NoUser, code |-> 401]

\* GET /api/tasks
GetTasks(token) ==
    LET req == [op |-> "list", token |-> Presented(token, now)]
        user == auth(token, now)
        rows == IF user.role # "admin"
                THEN {t \in tasks : t.user_id = user.id}
                ELSE tasks
    IN  /\ UNCHANGED <<users, tasks, nextTaskId, now>>
        /\ IF user = NoUser
           THEN last' = Unauthorized(req)
           ELSE \E list \in OrderByCreatedAtDesc(JoinUsers(rows)) :
                    last' = [req |-> req, user |-> user, code |-> 200, list |-> list]

\* The permission check of GET /api/tasks/:id
GetPermitted(user, task) == ~(user.role # "admin" /\ task.user_id # user.id)

\* The order of the checks of GET /api/tasks/:id
GetOutcome(user, found) ==
    IF user = NoUser THEN "unauthorized"
    ELSE IF found = {} THEN "notfound"
    ELSE IF ~GetPermitted(user, First(found)) THEN "denied"
    ELSE "ok"

\* GET /api/tasks/:id
GetTask(token, id) ==
    LET req == [op |-> "get", token |-> Presented(token, now), id |-> id]
        user == auth(token, now)
        found == JoinUsers(SelectTaskById(id))
    IN  /\ UNCHANGED <<users, tasks, nextTaskId, now>>
        /\ \E outcome \in {GetOutcome(user, found)} :
           CASE outcome = "unauthorized" -> last' = Unauthorized(req)
             [] outcome = "notfound" ->
                    last' = [req |-> req, user |-> user, code |-> 404,
                             message |-> "Task not found"]
             [] outcome = "denied" ->
                    last' = [req |-> req, user |-> user, code |-> 403,
                             message |-> "Access denied"]
             [] outcome = "ok" ->
                    last' = [req |-> req, user |-> user, code |-> 200,
                             task |-> First(found)]

\* The validation chain of POST /api/tasks
PostErrors(body) ==
    (IF body.title # Undefined /\ notEmpty(Get(body.title)) THEN {}
     ELSE {"Title is required"})
    \cup (IF body.status = Undefined \/ Get(body.status) \in StatusEnum THEN {}
          ELSE {"Invalid value"})

\* const { title, description, status = 'pending' } = req.body
PostStatus(body) == IF body.status = Undefined THEN "pending" ELSE Get(body.status)

\* An owner taken from the body when the body names one.
PostOwnerFromBody(user, body) ==
    IF body.user_id # Undefined THEN Get(body.user_id) ELSE user.id

\* The user_id POST /api/tasks inserts.
PostOwner(user, body) == user.id

\* The order of the checks of POST /api/tasks
PostOutcome(user, errors) ==
    IF user = NoUser THEN "unauthorized"
    ELSE IF errors # {} THEN "invalid"
    ELSE "ok"

\* POST /api/tasks
PostTask(token, body) ==
    LET req == [op |-> "create", token |-> Presented(token, now), body |-> body]
        user == auth(token, now)
        errors == PostErrors(body)
        inserted == InsertTask(Get(body.title), body.description,
                               PostStatus(body), PostOwner(user, body))
    IN  /\ UNCHANGED <<users, now>>
        /\ \E outcome \in {PostOutcome(user, errors)} :
           CASE outcome = "unauthorized" ->
                    last' = Unauthorized(req) /\ UNCHANGED <<tasks, nextTaskId>>
             [] outcome = "invalid" ->
                    /\ last' = [req |-> req, user |-> user, code |-> 400,
                                errors |-> errors]
                    /\ UNCHANGED <<tasks, nextTaskId>>
             [] outcome = "ok" ->
                    /\ nextTaskId <= MaxTasks
                    /\ tasks' = inserted
                    /\ nextTaskId' = nextTaskId + 1
                    /\ last' = [req |-> req, user |-> user, code |-> 201,
                                message |-> "Task created successfully",
                                task |-> First({t \in inserted : t.id = nextTaskId})]

\* A validation chain that does not look at the status.
PutErrorsTitleOnly(body) ==
    IF body.title = Undefined \/ notEmpty(Get(body.title)) THEN {}
    ELSE {"Invalid value"}

\* The validation chain of PUT /api/tasks/:id
PutErrors(body) ==
    (IF body.title = Undefined \/ notEmpty(Get(body.title)) THEN {}
     ELSE {"Invalid value"})
    \cup (IF body.status = Undefined \/ Get(body.status) \in StatusEnum THEN {}
          ELSE {"Invalid value"})

\* The permission check of PUT /api/tasks/:id
PutPermitted(user, task) == ~(user.role # "admin" /\ task.user_id # user.id)

\* A SET list that takes the description only when it is truthy.
PutUpdatesTruthy(body) ==
    (IF Truthy(body.title) THEN {"title"} ELSE {})
    \cup (IF Truthy(body.description) THEN {"description"} ELSE {})
    \cup (IF Truthy(body.status) THEN {"status"} ELSE {})

\* The SET list PUT /api/tasks/:id builds from the body
PutUpdates(body) ==
    (IF Truthy(body.title) THEN {"title"} ELSE {})
    \cup (IF body.description # Undefined THEN {"description"} ELSE {})
    \cup (IF Truthy(body.status) THEN {"status"} ELSE {})

\* UPDATE tasks SET ... WHERE id = ?
UpdateTaskById(id, updates, body) ==
    {IF t.id # id THEN t
     ELSE [t EXCEPT
             !.title = IF "title" \in updates THEN Get(body.title) ELSE @,
             !.description = IF "description" \in updates
                             THEN SqlParam(body.description) ELSE @,
             !.status = IF "status" \in updates THEN Get(body.status) ELSE @] :
        t \in tasks}

\* The checks without the one for an empty SET list.
PutOutcomeNoEmptyCheck(user, errors, found, updates) ==
    IF user = NoUser THEN "unauthorized"
    ELSE IF errors # {} THEN "invalid"
    ELSE IF found = {} THEN "notfound"
    ELSE IF ~PutPermitted(user, First(found)) THEN "denied"
    ELSE "ok"

\* The checks with the one for an empty SET list before the lookup.
PutOutcomeFieldsFirst(user, errors, found, updates) ==
    IF user = NoUser THEN "unauthorized"
    ELSE IF errors # {} THEN "invalid"
    ELSE IF updates = {} THEN "nofields"
    ELSE IF found = {} THEN "notfound"
    ELSE IF ~PutPermitted(user, First(found)) THEN "denied"
    ELSE "ok"

\* The order of the checks of PUT /api/tasks/:id
PutOutcome(user, errors, found, updates) ==
    IF user = NoUser THEN "unauthorized"
    ELSE IF errors # {} THEN "invalid"
    ELSE IF found = {} THEN "notfound"
    ELSE IF ~PutPermitted(user, First(found)) THEN "denied"
    ELSE IF updates = {} THEN "nofields"
    ELSE "ok"

\* PUT /api/tasks/:id
PutTask(token, id, body) ==
    LET req == [op |-> "update", token |-> Presented(token, now), id |-> id, body |-> body]
        user == auth(token, now)
        errors == PutErrors(body)
        found == SelectTaskById(id)
        updates == PutUpdates(body)
        updated == UpdateTaskById(id, updates, body)
    IN  /\ UNCHANGED <<users, nextTaskId, now>>
        /\ \E outcome \in {PutOutcome(user, errors, found, updates)} :
           CASE outcome = "unauthorized" ->
                    last' = Unauthorized(req) /\ UNCHANGED tasks
             [] outcome = "invalid" ->
                    /\ last' = [req |-> req, user |-> user, code |-> 400,
                                errors |-> errors]
                    /\ UNCHANGED tasks
             [] outcome = "notfound" ->
                    /\ last' = [req |-> req, user |-> user, code |-> 404,
                                message |-> "Task not found"]
                    /\ UNCHANGED tasks
             [] outcome = "denied" ->
                    /\ last' = [req |-> req, user |-> user, code |-> 403,
                                message |-> "Access denied"]
                    /\ UNCHANGED tasks
             [] outcome = "nofields" ->
                    /\ last' = [req |-> req, user |-> user, code |-> 400,
                                message |-> "No fields to update"]
                    /\ UNCHANGED tasks
             [] outcome = "ok" ->
                    /\ tasks' = updated
                    /\ last' = [req |-> req, user |-> user, code |-> 200,
                                message |-> "Task updated successfully",
                                task |-> First({t \in updated : t.id = id})]

\* A permission check with || for &&.
DeletePermittedOr(user, task) == ~(user.role # "admin" \/ task.user_id # user.id)

\* The permission check of DELETE /api/tasks/:id
DeletePermitted(user, task) == ~(user.role # "admin" /\ task.user_id # user.id)

\* The checks of a route that lacks the auth middleware.
DeleteOutcomeNoAuth(user, found) ==
    IF found = {} THEN "notfound"
    ELSE IF ~DeletePermitted(user, First(found)) THEN "denied"
    ELSE "ok"

\* The order of the checks of DELETE /api/tasks/:id
DeleteOutcome(user, found) ==
    IF user = NoUser THEN "unauthorized"
    ELSE IF found = {} THEN "notfound"
    ELSE IF ~DeletePermitted(user, First(found)) THEN "denied"
    ELSE "ok"

\* DELETE /api/tasks/:id
DeleteTask(token, id) ==
    LET req == [op |-> "delete", token |-> Presented(token, now), id |-> id]
        user == auth(token, now)
        found == SelectTaskById(id)
    IN  /\ UNCHANGED <<users, nextTaskId, now>>
        /\ \E outcome \in {DeleteOutcome(user, found)} :
           CASE outcome = "unauthorized" ->
                    last' = Unauthorized(req) /\ UNCHANGED tasks
             [] outcome = "notfound" ->
                    /\ last' = [req |-> req, user |-> user, code |-> 404,
                                message |-> "Task not found"]
                    /\ UNCHANGED tasks
             [] outcome = "denied" ->
                    /\ last' = [req |-> req, user |-> user, code |-> 403,
                                message |-> "Access denied"]
                    /\ UNCHANGED tasks
             [] outcome = "ok" ->
                    /\ tasks' = DeleteTaskById(id)
                    /\ last' = [req |-> req, user |-> user, code |-> 200,
                                message |-> "Task deleted successfully"]

(* -------------------------------- clock ------------------------------- *)
Tick ==
    /\ now < MaxClock
    /\ now' = now + 1
    /\ UNCHANGED <<users, tasks, nextTaskId, last, calls, ui>>

(* ---------------------------- specifications -------------------------- *)
Boot == [req |-> [op |-> "boot"], code |-> 0]

\* The form of the TaskManager component when nothing is typed.
EmptyForm == [title |-> "", description |-> "", status |-> "pending"]

\* The state of the TaskManager component from its useState calls: no task
\* listed, no task being edited, the empty form.
Unmounted == [tasks |-> <<>>, editingTask |-> NULL, formData |-> EmptyForm]

\* A fresh deployment: no tasks, and no users or the one administrator the
\* operator has provisioned in the users table.
InitAuth ==
    /\ users \in {<<>>, <<AdminRow>>}
    /\ tasks = {}
    /\ nextTaskId = 1
    /\ now = 0
    /\ last = Boot
    /\ calls = <<>>
    /\ ui = Unmounted

RegisterRequest ==
    /\ UNCHANGED <<calls, ui>>
    /\ \E username \in Usernames, email \in Emails, password \in Passwords :
           Register(username, email, password)

LoginRequest ==
    /\ UNCHANGED <<calls, ui>>
    /\ \E email \in Emails \cup {AdminRow.email}, password \in Passwords : Login(email, password)

NextAuth == RegisterRequest \/ LoginRequest \/ Tick

SpecAuth == InitAuth /\ [][NextAuth]_vars

\* The deployment after alice has registered next to the administrator.
AliceRow ==
    [username |-> "alice", email |-> <<"a", "@", "x.com">>,
     password |-> bcryptHash(<<1, 2, 3, 4, 5, 6>>, "s1"),
     role |-> "user", created_at |-> 0]

InitTasks ==
    /\ users = <<AdminRow, AliceRow>>
    /\ tasks = {}
    /\ nextTaskId = 1
    /\ now = 0
    /\ last = Boot
    /\ calls = <<>>
    /\ ui = Unmounted

TaskIds == 1..MaxTasks

\* A JSON body: the fields the routes read and user_id, which they do not.
Body(title, description, status, user_id) ==
    [title |-> title, description |-> description, status |-> status,
     user_id |-> user_id]

\* Short bodies for the requests of SpecTasks: one that passes validation,
\* and for an update one that carries no field and one that fails validation.
PostBodies ==
    {Body(Val("a"), Undefined, Undefined, Undefined),
     Body(Undefined, Undefined, Undefined, Undefined)}
PutBodies ==
    {Body(Undefined, Undefined, Val("completed"), Undefined),
     Body(Undefined, Undefined, Undefined, Undefined),
     Body(Undefined, Undefined, Val("done"), Undefined)}

GetTasksRequest ==
    /\ UNCHANGED <<calls, ui>>
    /\ \E token \in Tokens : GetTasks(token)
GetTaskRequest ==
    /\ UNCHANGED <<calls, ui>>
    /\ \E token \in Tokens, id \in TaskIds : GetTask(token, id)
PostTaskRequest ==
    /\ UNCHANGED <<calls, ui>>
    /\ \E token \in Tokens, body \in PostBodies : PostTask(token, body)
PutTaskRequest ==
    /\ UNCHANGED <<calls, ui>>
    /\ \E token \in Tokens, id \in TaskIds, body \in PutBodies : PutTask(token, id, body)
DeleteTaskRequest ==
    /\ UNCHANGED <<calls, ui>>
    /\ \E token \in Tokens, id \in TaskIds : DeleteTask(token, id)

NextTasks ==
    \/ GetTasksRequest
    \/ GetTaskRequest
    \/ PostTaskRequest
    \/ PutTaskRequest
    \/ DeleteTaskRequest
    \/ Tick

\* The task router with every route, short bodies and the clock.
SpecTasks == InitTasks /\ [][NextTasks]_vars

\* The bodies of SpecCreate: a title missing, empty or given; a description
\* missing, empty or given; a status missing, valid or invalid; and a user_id
\* naming either user.
PostFieldBodies ==
    {Body(Undefined, Val("d"), Val("completed"), Undefined),
     Body(Val(""), Val("d"), Val("in-progress"), Val(1)),
     Body(Val("a"), Undefined, Undefined, Undefined),
     Body(Val("a"), Undefined, Val("done"), Undefined),
     Body(Val("b"), Val(""), Val(""), Undefined),
     Body(Val("a"), Val("d"), Val("in-progress"), Val(1)),
     Body(Val("b"), Val(""), Val("completed"), Val(2)),
     Body(Val("b"), Undefined, Val("pending"), Val(1))}

PostFieldsRequest ==
    /\ UNCHANGED <<calls, ui>>
    /\ \E token \in IssuedTokens, body \in PostFieldBodies : PostTask(token, body)

NextCreate == PostFieldsRequest \/ Tick

\* The create route alone, with every body.
SpecCreate == InitTasks /\ [][NextCreate]_vars

\* The bodies of SpecUpdate: no field, a field that fails validation, each
\* field alone, several fields, and a user_id.
PutFieldBodies ==
    {Body(Undefined, Undefined, Undefined, Undefined),
     Body(Undefined, Undefined, Undefined, Val(1)),
     Body(Val(""), Val(""), Val("completed"), Undefined),
     Body(Undefined, Undefined, Val("done"), Undefined),
     Body(Val("b"), Undefined, Undefined, Undefined),
     Body(Undefined, Val(""), Undefined, Undefined),
     Body(Undefined, Undefined, Val("pending"), Undefined),
     Body(Undefined, Undefined, Val("completed"), Val(2)),
     Body(Val("b"), Val(""), Val("completed"), Undefined)}

PostPlainRequest ==
    /\ UNCHANGED <<calls, ui>>
    /\ \E token \in IssuedTokens :
           PostTask(token, Body(Val("a"), Undefined, Undefined, Undefined))
PutFieldsRequest ==
    /\ UNCHANGED <<calls, ui>>
    /\ \E token \in IssuedTokens, id \in TaskIds, body \in PutFieldBodies : PutTask(token, id, body)

NextUpdate == PostPlainRequest \/ PutFieldsRequest

\* The update route with its bodies, on tasks either user created.
SpecUpdate == InitTasks /\ [][NextUpdate]_vars

(* ------------------ register as interleaved statements ---------------- *)
\* A request the server has finished.
Done == [pc |-> "done"]

\* Keys that let every row in.
UniqueKeysOff(username, email) == TRUE

\* The unique keys of the users table on username and on email: a row is
\* let in when no stored row has its username or its email.
UniqueKeys(username, email) ==
    \A i \in DOMAIN users : users[i].username # username /\ users[i].email # email

\* POST /api/auth/register up to its first await: the validation, and the
\* existence check sent to the database.
RegisterStart(username, email, password) ==
    LET req == [op |-> "register", username |-> username, email |-> email,
                password |-> password]
        errors == RegisterErrors(username, email, password)
    IN  /\ UNCHANGED <<users, tasks, nextTaskId, now, ui>>
        /\ IF errors # {}
           THEN /\ last' = [req |-> req, code |-> 400, errors |-> errors]
                /\ UNCHANGED calls
           ELSE /\ Len(calls) < MaxCalls
                /\ calls' = Append(calls, [pc |-> "select", req |-> req])
                /\ UNCHANGED last

\* The existence check runs, and the handler goes on from its result to the
\* hash and the INSERT it sends.
RegisterSelect(c) ==
    LET req == calls[c].req
        existing == SelectUsersByEmailOrUsername(req.email, req.username)
    IN  /\ calls[c].pc = "select"
        /\ UNCHANGED <<users, tasks, nextTaskId, now, ui>>
        /\ IF existing # {}
           THEN /\ last' = [req |-> req, code |-> 400,
                            message |-> "User already exists"]
                /\ calls' = [calls EXCEPT ![c] = Done]
           ELSE /\ \E salt \in Salts :
                       calls' = [calls EXCEPT ![c] =
                                   [pc |-> "insert", req |-> req,
                                    hashedPassword |-> bcryptHash(req.password, salt)]]
                /\ UNCHANGED last

\* The INSERT runs: the row is stored and the handler answers 201 with the
\* token, or the keys refuse the row and the handler's catch answers 500.
RegisterInsert(c) ==
    LET req == calls[c].req
        insertId == Len(users) + 1
    IN  /\ calls[c].pc = "insert"
        /\ UNCHANGED <<tasks, nextTaskId, now, ui>>
        /\ calls' = [calls EXCEPT ![c] = Done]
        /\ IF UniqueKeys(req.username, req.email)
           THEN /\ users' = InsertUser(req.username, req.email, calls[c].hashedPassword)
                /\ last' = [req |-> req, code |-> 201,
                            message |-> "User registered successfully",
                            token |-> jwtSign(insertId, req.username, "user", now),
                            user |-> [id |-> insertId, username |-> req.username,
                                      email |-> req.email, role |-> "user"]]
           ELSE /\ UNCHANGED users
                /\ last' = [req |-> req, code |-> 500, message |-> "Server error"]

\* The registers of SpecRegister: two usernames, two emails, a password that
\* passes validation and one that does not.
RegisterNames == {"alice", "bob"}
RegisterEmails == {<<"a", "@", "x.com">>, <<"b", "@", "x.com">>}
RegisterPasswords == {<<1, 2, 3, 4, 5>>, <<1, 2, 3, 4, 5, 6>>}

InitRegister ==
    /\ users = <<AdminRow>>
    /\ tasks = {}
    /\ nextTaskId = 1
    /\ now = 0
    /\ last = Boot
    /\ calls = <<>>
    /\ ui = Unmounted

RegisterStartStep ==
    \E username \in RegisterNames, email \in RegisterEmails,
       password \in RegisterPasswords : RegisterStart(username, email, password)
RegisterSelectStep == \E c \in DOMAIN calls : RegisterSelect(c)
RegisterInsertStep == \E c \in DOMAIN calls : RegisterInsert(c)

NextRegister == RegisterStartStep \/ RegisterSelectStep \/ RegisterInsertStep

\* Register requests whose statements interleave.
SpecRegister == InitRegister /\ [][NextRegister]_vars


(* ------------- update and delete as interleaved statements ------------ *)
\* History kept with each request between its existence check and its
\* answer: `raced` turns TRUE when another request's statement changes the
\* task in that time.  A DELETE does so for an update or delete that has
\* checked and not yet answered, an UPDATE for an update waiting to re-read.
Raced(call, id, by) ==
    /\ call.pc \in (IF by = "delete" THEN {"put-mutate", "put-reread", "del-mutate"}
                    ELSE {"put-reread"})
    /\ call.req.id = id

MarkRaced(self, id, by) ==
    [k \in DOMAIN calls |->
        IF k # self /\ Raced(calls[k], id, by)
        THEN [calls[k] EXCEPT !.raced = TRUE]
        ELSE calls[k]]

\* PUT /api/tasks/:id up to its first await: the auth middleware, the
\* validation, and the existence check sent to the database.
PutStart(token, id, body) ==
    LET req == [op |-> "update", token |-> Presented(token, now), id |-> id, body |-> body]
        user == auth(token, now)
        errors == PutErrors(body)
    IN  /\ UNCHANGED <<users, tasks, nextTaskId, now, ui>>
        /\ IF user = NoUser
           THEN last' = Unauthorized(req) /\ UNCHANGED calls
           ELSE IF errors # {}
           THEN /\ last' = [req |-> req, user |-> user, code |-> 400,
                            errors |-> errors]
                /\ UNCHANGED calls
           ELSE /\ Len(calls) < MaxCalls
                /\ calls' = Append(calls, [pc |-> "put-check", req |-> req, user |-> user])
                /\ UNCHANGED last

\* The existence check runs, and the handler goes on from its result to the
\* permission check, the SET list and the UPDATE it sends.
PutCheck(c) ==
    LET req == calls[c].req
        user == calls[c].user
        found == SelectTaskById(req.id)
        updates == PutUpdates(req.body)
    IN  /\ calls[c].pc = "put-check"
        /\ UNCHANGED <<users, tasks, nextTaskId, now, ui>>
        /\ IF found = {}
           THEN /\ last' = [req |-> req, user |-> user, code |-> 404,
                            message |-> "Task not found"]
                /\ calls' = [calls EXCEPT ![c] = Done]
           ELSE IF ~PutPermitted(user, First(found))
           THEN /\ last' = [req |-> req, user |-> user, code |-> 403,
                            message |-> "Access denied"]
                /\ calls' = [calls EXCEPT ![c] = Done]
           ELSE IF updates = {}
           THEN /\ last' = [req |-> req, user |-> user, code |-> 400,
                            message |-> "No fields to update"]
                /\ calls' = [calls EXCEPT ![c] = Done]
           ELSE /\ calls' = [calls EXCEPT ![c] =
                               [pc |-> "put-mutate", req |-> req, user |-> user,
                                task |-> First(found), updates |-> updates,
                                raced |-> FALSE]]
                /\ UNCHANGED last

\* The UPDATE runs, on the row of the id if there still is one, and the
\* handler sends the re-read.
PutMutate(c) ==
    LET req == calls[c].req
    IN  /\ calls[c].pc = "put-mutate"
        /\ UNCHANGED <<users, nextTaskId, now, last, ui>>
        /\ tasks' = UpdateTaskById(req.id, calls[c].updates, req.body)
        /\ calls' = [MarkRaced(c, req.id, "update") EXCEPT ![c].pc = "put-reread"]

\* An answer with the row the existence check found.
PutResponseFromCheck(call, rows) ==
    [req |-> call.req, user |-> call.user, code |-> 200,
     message |-> "Task updated successfully", task |-> call.task]

\* res.json({ message, task: updatedTask[0] }): JSON leaves out a key whose
\* value is undefined, so no re-read row gives an answer without a task.
PutResponse(call, rows) ==
    IF rows = {}
    THEN [req |-> call.req, user |-> call.user, code |-> 200,
          message |-> "Task updated successfully"]
    ELSE [req |-> call.req, user |-> call.user, code |-> 200,
          message |-> "Task updated successfully", task |-> First(rows)]

\* The re-read runs and the handler answers with its first row.
PutReread(c) ==
    /\ calls[c].pc = "put-reread"
    /\ UNCHANGED <<users, tasks, nextTaskId, now, ui>>
    /\ last' = PutResponse(calls[c], SelectTaskById(calls[c].req.id))
    /\ calls' = [calls EXCEPT ![c] = Done]

\* DELETE /api/tasks/:id up to its first await: the auth middleware, and the
\* existence check sent to the database.
DeleteStart(token, id) ==
    LET req == [op |-> "delete", token |-> Presented(token, now), id |-> id]
        user == auth(token, now)
    IN  /\ UNCHANGED <<users, tasks, nextTaskId, now, ui>>
        /\ IF user = NoUser
           THEN last' = Unauthorized(req) /\ UNCHANGED calls
           ELSE /\ Len(calls) < MaxCalls
                /\ calls' = Append(calls, [pc |-> "del-check", req |-> req, user |-> user])
                /\ UNCHANGED last

\* The existence check runs, and the handler goes on from its result to the
\* permission check and the DELETE it sends.
DeleteCheck(c) ==
    LET req == calls[c].req
        user == calls[c].user
        found == SelectTaskById(req.id)
    IN  /\ calls[c].pc = "del-check"
        /\ UNCHANGED <<users, tasks, nextTaskId, now, ui>>
        /\ IF found = {}
           THEN /\ last' = [req |-> req, user |-> user, code |-> 404,
                            message |-> "Task not found"]
                /\ calls' = [calls EXCEPT ![c] = Done]
           ELSE IF ~DeletePermitted(user, First(found))
           THEN /\ last' = [req |-> req, user |-> user, code |-> 403,
                            message |-> "Access denied"]
                /\ calls' = [calls EXCEPT ![c] = Done]
           ELSE /\ calls' = [calls EXCEPT ![c] =
                               [pc |-> "del-mutate", req |-> req, user |-> user,
                                task |-> First(found), raced |-> FALSE]]
                /\ UNCHANGED last

\* The DELETE runs, on the row of the id if there still is one, and the
\* handler answers.
DeleteMutate(c) ==
    LET req == calls[c].req
    IN  /\ calls[c].pc = "del-mutate"
        /\ UNCHANGED <<users, nextTaskId, now, ui>>
        /\ tasks' = DeleteTaskById(req.id)
        /\ last' = [req |-> req, user |-> calls[c].user, code |-> 200,
                    message |-> "Task deleted successfully"]
        /\ calls' = [MarkRaced(c, req.id, "delete") EXCEPT ![c] = Done]

\* The store after the administrator has created a task.
RaceTask ==
    [id |-> 1, title |-> "a", description |-> NULL, status |-> "pending",
     user_id |-> 1, created_at |-> 0]

InitRace ==
    /\ users = <<AdminRow, AliceRow>>
    /\ tasks = {RaceTask}
    /\ nextTaskId = 2
    /\ now = 0
    /\ last = Boot
    /\ calls = <<>>
    /\ ui = Unmounted

\* The requests of SpecRace, all on the id of that task: bodies that set a
\* title, another title and a status, nothing, and a status that fails
\* validation.
RaceIds == {RaceTask.id}
RaceBodies ==
    {Body(Val("b"), Undefined, Undefined, Undefined),
     Body(Val("c"), Undefined, Val("completed"), Undefined),
     Body(Undefined, Undefined, Undefined, Undefined),
     Body(Undefined, Undefined, Val("done"), Undefined)}

PutStartStep ==
    \E token \in IssuedTokens \cup {NoToken}, id \in RaceIds, body \in RaceBodies :
        PutStart(token, id, body)
PutCheckStep == \E c \in DOMAIN calls : PutCheck(c)
PutMutateStep == \E c \in DOMAIN calls : PutMutate(c)
PutRereadStep == \E c \in DOMAIN calls : PutReread(c)
DeleteStartStep ==
    \E token \in IssuedTokens \cup {NoToken}, id \in RaceIds : DeleteStart(token, id)
DeleteCheckStep == \E c \in DOMAIN calls : DeleteCheck(c)
DeleteMutateStep == \E c \in DOMAIN calls : DeleteMutate(c)

NextRace ==
    \/ PutStartStep
    \/ PutCheckStep
    \/ PutMutateStep
    \/ PutRereadStep
    \/ DeleteStartStep
    \/ DeleteCheckStep
    \/ DeleteMutateStep

\* Update and delete requests whose statements interleave.
SpecRace == InitRace /\ [][NextRace]_vars


(* ------------------- create, update and delete together --------------- *)
\* The bodies of SpecLifecycle.  A create: no status, each status, a status
\* that fails validation, an empty title.  An update: each status, a status
\* that fails validation, an empty status, an empty title, a new title.
LifecyclePostBodies ==
    {Body(Val("a"), Undefined, Undefined, Undefined),
     Body(Val("a"), Undefined, Val("in-progress"), Val(1)),
     Body(Val("a"), Undefined, Val("completed"), Undefined),
     Body(Val("a"), Undefined, Val("done"), Undefined),
     Body(Val(""), Undefined, Val("pending"), Undefined)}
LifecyclePutBodies ==
    {Body(Undefined, Undefined, Val("pending"), Undefined),
     Body(Undefined, Undefined, Val("in-progress"), Undefined),
     Body(Undefined, Undefined, Val("completed"), Val(1)),
     Body(Undefined, Undefined, Val("done"), Undefined),
     Body(Undefined, Undefined, Val(""), Undefined),
     Body(Val(""), Undefined, Val("completed"), Undefined),
     Body(Val("b"), Undefined, Undefined, Undefined)}

LifecyclePostRequest ==
    /\ UNCHANGED <<calls, ui>>
    /\ \E token \in IssuedTokens, body \in LifecyclePostBodies : PostTask(token, body)
LifecyclePutRequest ==
    /\ UNCHANGED <<calls, ui>>
    /\ \E token \in IssuedTokens, id \in TaskIds, body \in LifecyclePutBodies :
           PutTask(token, id, body)
LifecycleDeleteRequest ==
    /\ UNCHANGED <<calls, ui>>
    /\ \E token \in IssuedTokens, id \in TaskIds : DeleteTask(token, id)

NextLifecycle == LifecyclePostRequest \/ LifecyclePutRequest \/ LifecycleDeleteRequest

\* The routes that write the tasks table, one request at a time.
SpecLifecycle == InitTasks /\ [][NextLifecycle]_vars


(* ----------------------- the TaskManager component -------------------- *)
\* The token in localStorage and the user prop: alice, logged in at 0.
FrontendToken == jwtSign(2, AliceRow.username, AliceRow.role, 0)
FrontendUser == [id |-> 2, username |-> AliceRow.username, role |-> AliceRow.role]

\* String.prototype.trim on the titles a user types here.
Trim(s) == IF s = " " THEN "" ELSE s

\* canModify(task)
canModify(task) == FrontendUser.role = "admin" \/ task.user_id = FrontendUser.id

\* tasks.filter(task => task.id !== taskId)
FilterOut(list, taskId) == SelectSeq(list, LAMBDA task : task.id # taskId)

\* tasks.map(task => task.id === id ? replacement : task)
MapReplace(list, id, replacement) ==
    [i \in DOMAIN list |-> IF list[i].id = id THEN replacement ELSE list[i]]

\* The JSON body axios sends for the form.
FormBody(formData) ==
    Body(Val(formData.title), Val(formData.description), Val(formData.status),
         Undefined)

\* handleInputChange: one field of the form takes the typed value.
HandleInputChange(name, value) ==
    /\ ui' = [ui EXCEPT !.formData = [@ EXCEPT ![name] = value]]
    /\ UNCHANGED <<users, tasks, nextTaskId, now, last, calls>>

\* handleEdit(task)
HandleEdit(i) ==
    /\ canModify(ui.tasks[i])
    /\ ui' = [ui EXCEPT !.editingTask = Val(ui.tasks[i]),
                        !.formData = [title |-> ui.tasks[i].title,
                                      description |->
                                          IF Truthy(ui.tasks[i].description)
                                          THEN Get(ui.tasks[i].description) ELSE "",
                                      status |-> ui.tasks[i].status]]
    /\ UNCHANGED <<users, tasks, nextTaskId, now, last, calls>>

\* The Cancel button of the form.
CancelEdit ==
    /\ ui.editingTask # NULL
    /\ ui' = [ui EXCEPT !.editingTask = NULL, !.formData = EmptyForm]
    /\ UNCHANGED <<users, tasks, nextTaskId, now, last, calls>>

\* handleSubmit up to its await: the title check, then the PUT or POST sent
\* with the form.  The call keeps the tasks and editingTask of the render it
\* started from.
HandleSubmitStart ==
    /\ Trim(ui.formData.title) # ""
    /\ Len(calls) < MaxClicks
    /\ calls' = Append(calls,
                  [pc |-> "sent",
                   op |-> IF ui.editingTask # NULL THEN "update" ELSE "create",
                   id |-> IF ui.editingTask # NULL THEN Get(ui.editingTask).id ELSE 0,
                   body |-> FormBody(ui.formData),
                   tasks |-> ui.tasks])
    /\ UNCHANGED <<users, tasks, nextTaskId, now, last, ui>>

\* handleDelete(taskId) up to its await, the user having confirmed: the
\* DELETE sent.  The call keeps the tasks of the render it started from.
HandleDeleteStart(i) ==
    /\ canModify(ui.tasks[i])
    /\ Len(calls) < MaxClicks
    /\ calls' = Append(calls,
                  [pc |-> "sent", op |-> "delete", id |-> ui.tasks[i].id,
                   body |-> FormBody(EmptyForm), tasks |-> ui.tasks])
    /\ UNCHANGED <<users, tasks, nextTaskId, now, last, ui>>

\* The server handles the request of call c and its answer travels back.
ServerHandles(c) ==
    /\ calls[c].pc = "sent"
    /\ CASE calls[c].op = "create" -> PostTask(FrontendToken, calls[c].body)
         [] calls[c].op = "update" -> PutTask(FrontendToken, calls[c].id, calls[c].body)
         [] calls[c].op = "delete" -> DeleteTask(FrontendToken, calls[c].id)
    /\ calls' = [calls EXCEPT ![c] =
                   [pc |-> "answered", op |-> calls[c].op, id |-> calls[c].id,
                    tasks |-> calls[c].tasks, response |-> last']]
    /\ UNCHANGED ui

\* What is kept of a call of the component that has ended: what it asked
\* for, the list of the render it started from, the answer's code, and the
\* id of the task the answer carried.
Ended(call) ==
    [pc |-> "done", op |-> call.op, tasks |-> call.tasks,
     code |-> call.response.code,
     id |-> IF "task" \in DOMAIN call.response THEN call.response.task.id
            ELSE call.id]

\* handleSubmit after its await: on a 2xx answer setTasks with the list of
\* the render the call started from, changed by the answer's task, and the
\* form reset; on any other answer the catch, which only shows a toast.
HandleSubmitEnd(c) ==
    LET call == calls[c]
    IN  /\ call.pc = "answered"
        /\ call.op \in {"create", "update"}
        /\ calls' = [calls EXCEPT ![c] = Ended(call)]
        /\ UNCHANGED <<users, tasks, nextTaskId, now, last>>
        /\ IF call.response.code \notin {200, 201}
           THEN UNCHANGED ui
           ELSE IF call.op = "update"
           THEN ui' = [tasks |-> MapReplace(call.tasks, call.id, call.response.task),
                       editingTask |-> NULL, formData |-> EmptyForm]
           ELSE ui' = [ui EXCEPT !.tasks = <<call.response.task>> \o call.tasks,
                                 !.formData = EmptyForm]

\* handleDelete after its await: on a 2xx answer setTasks with the list of
\* the render the call started from, without the task; else the catch.
HandleDeleteEnd(c) ==
    LET call == calls[c]
    IN  /\ call.pc = "answered"
        /\ call.op = "delete"
        /\ calls' = [calls EXCEPT ![c] = Ended(call)]
        /\ UNCHANGED <<users, tasks, nextTaskId, now, last>>
        /\ IF call.response.code # 200
           THEN UNCHANGED ui
           ELSE ui' = [ui EXCEPT !.tasks = FilterOut(call.tasks, call.id)]

\* The component mounted by alice on an empty tasks table, its first
\* fetchTasks answered.
InitFrontend ==
    /\ users = <<AdminRow, AliceRow>>
    /\ tasks = {}
    /\ nextTaskId = 1
    /\ now = 0
    /\ last = Boot
    /\ calls = <<>>
    /\ ui = Unmounted

\* What the user types: a title, a blank title, no title, a status.
FormInputs ==
    {<<"title", "a">>, <<"title", " ">>, <<"title", "">>, <<"status", "completed">>}

InputChangeStep == \E input \in FormInputs : HandleInputChange(input[1], input[2])
EditStep == \E i \in DOMAIN ui.tasks : HandleEdit(i)
ClickSubmitStep == HandleSubmitStart
ClickDeleteStep == \E i \in DOMAIN ui.tasks : HandleDeleteStart(i)
ServerStep == \E c \in DOMAIN calls : ServerHandles(c)
SubmitEndStep == \E c \in DOMAIN calls : HandleSubmitEnd(c)
DeleteEndStep == \E c \in DOMAIN calls : HandleDeleteEnd(c)

NextFrontend ==
    \/ InputChangeStep
    \/ EditStep
    \/ CancelEdit
    \/ ClickSubmitStep
    \/ ClickDeleteStep
    \/ ServerStep
    \/ SubmitEndStep
    \/ DeleteEndStep

\* The TaskManager component against the task router.
SpecFrontend == InitFrontend /\ [][NextFrontend]_vars


(* ============================ properties ============================== *)
\* A step that answers a request: every action but Tick leaves the clock.
RequestStep == now' = now

\* The columns of a task row, without the username the JOIN adds.
Strip(row) ==
    [id |-> row.id, title |-> row.title, description |-> row.description,
     status |-> row.status, user_id |-> row.user_id, created_at |-> row.created_at]

(* ------------------------------- C1 ----------------------------------- *)
\* The step answers a get, update or delete of an authenticated caller on the
\* id of the stored task t.
C1_On(t) ==
    /\ RequestStep
    /\ last'.req.op \in {"get", "update", "delete"}
    /\ last'.user # NoUser
    /\ last'.req.id = t.id

\* The gate lets the request through: a get returns the task, a delete
\* removes it, an update goes on to its field checks.
C1_Allowed(t) ==
    CASE last'.req.op = "get" ->
            last'.code = 200 /\ Strip(last'.task) = t /\ tasks' = tasks
      [] last'.req.op = "delete" -> last'.code = 200 /\ tasks' = tasks \ {t}
      [] last'.req.op = "update" -> last'.code \in {200, 400}

\* The task is neither returned, changed nor removed.
C1_Untouched == tasks' = tasks /\ "task" \notin DOMAIN last'

C1_Denied == last'.code = 403 /\ C1_Untouched

\* C1 as stated: on an existing task a non-admin caller is allowed iff the
\* task is theirs and is otherwise answered 403 with the task neither
\* returned, changed nor removed; an admin is allowed on every task.
C1_AsStated ==
    [][\A t \in tasks :
         C1_On(t) =>
           IF last'.user.role = "admin" \/ t.user_id = last'.user.id
           THEN C1_Allowed(t)
           ELSE C1_Denied]_vars

\* C1 amended: as stated, except that an update whose body fails validation
\* is answered 400 before the task is looked up, whoever the caller is; the
\* task is still neither returned, changed nor removed.
C1_AccessGate ==
    [][\A t \in tasks :
         C1_On(t) =>
           IF last'.req.op = "update" /\ PutErrors(last'.req.body) # {}
           THEN last'.code = 400 /\ C1_Untouched
           ELSE IF last'.user.role = "admin" \/ t.user_id = last'.user.id
           THEN C1_Allowed(t)
           ELSE C1_Denied]_vars

\* A user was denied the delete of another user's task, which is still stored.
C1_Witness ==
    /\ last.req.op = "delete"
    /\ last.code = 403
    /\ last.user.role = "user"
    /\ \E t \in tasks : t.id = last.req.id /\ t.user_id # last.user.id

(* ------------------------------- C2 ----------------------------------- *)
C2_Visible(user) ==
    IF user.role = "admin" THEN tasks ELSE {t \in tasks : t.user_id = user.id}

\* C2: a list returns every stored task for an admin and exactly the caller's
\* own tasks for anyone else, each once, and no task before one created later.
C2_ListVisibleNewestFirst ==
    (last.req.op = "list" /\ last.code = 200) =>
        /\ {Strip(last.list[i]) : i \in DOMAIN last.list} = C2_Visible(last.user)
        /\ Len(last.list) = Cardinality(C2_Visible(last.user))
        /\ \A i, j \in DOMAIN last.list :
               i < j => last.list[i].created_at >= last.list[j].created_at

\* An admin listed two tasks of two users, created at different times.
C2_Witness ==
    /\ last.req.op = "list"
    /\ last.code = 200
    /\ last.user.role = "admin"
    /\ Len(last.list) = 2
    /\ last.list[1].user_id # last.list[2].user_id
    /\ last.list[1].created_at > last.list[2].created_at

(* ------------------------------- C3 ----------------------------------- *)
\* The step answers a register whose username or email a stored user has.
C3_Duplicate ==
    /\ RequestStep
    /\ last'.req.op = "register"
    /\ \E i \in DOMAIN users :
           \/ users[i].username = last'.req.username
           \/ users[i].email = last'.req.email

C3_NothingStored == users' = users /\ "token" \notin DOMAIN last'

C3_DuplicateUser ==
    /\ last'.code = 400
    /\ "message" \in DOMAIN last'
    /\ last'.message = "User already exists"

\* C3 as stated: a register with a username or email already in the store is
\* answered 400 'User already exists', stores no row and issues no token.
C3_AsStated == [][C3_Duplicate => C3_DuplicateUser /\ C3_NothingStored]_vars

\* C3 amended: such a register stores no row and issues no token; it is
\* answered 400 'User already exists' when the request passes validation, and
\* 400 with the validation errors when it does not.
C3_DuplicateRejected ==
    [][C3_Duplicate =>
         /\ C3_NothingStored
         /\ IF RegisterErrors(last'.req.username, last'.req.email,
                              last'.req.password) = {}
            THEN C3_DuplicateUser
            ELSE last'.code = 400 /\ "errors" \in DOMAIN last']_vars

\* A register was refused for a username that another email already holds.
C3_Witness ==
    /\ last.req.op = "register"
    /\ last.code = 400
    /\ "message" \in DOMAIN last
    /\ last.message = "User already exists"
    /\ \A i \in DOMAIN users : users[i].email # last.req.email
    /\ \E i \in DOMAIN users : users[i].username = last.req.username

(* ------------------------------- C4 ----------------------------------- *)
\* C4: a login with a well-formed email and a non-empty password that fails
\* is answered 401 'Invalid credentials' and nothing else, whether or not a
\* user has the email.
C4_LoginFailuresAlike ==
    (/\ last.req.op = "login"
     /\ isEmail(last.req.email)
     /\ Len(last.req.password) > 0
     /\ last.code # 200) =>
        /\ last.code = 401
        /\ DOMAIN last = {"req", "code", "message"}
        /\ last.message = "Invalid credentials"

\* A login failed on the password of a registered email, in a store where
\* another email of the inputs is not registered.
C4_Witness ==
    /\ last.req.op = "login"
    /\ last.code = 401
    /\ SelectUsersByEmail(last.req.email) # {}
    /\ \E e \in Emails : isEmail(e) /\ SelectUsersByEmail(e) = {}

(* ------------------------------- C5 ----------------------------------- *)
\* The step answers a create of an authenticated caller.
C5_Create == RequestStep /\ last'.req.op = "create" /\ last'.user # NoUser

C5_TitleMissing(body) == body.title = Undefined \/ body.title = Val("")

C5_Rejected == last'.code = 400 /\ tasks' = tasks

\* Exactly one task is stored: the caller's, with the supplied status or pending.
C5_Stored(body) ==
    /\ last'.code = 201
    /\ \E t \in tasks' :
         /\ t \notin tasks
         /\ tasks' = tasks \cup {t}
         /\ t.user_id = last'.user.id
         /\ t.title = Get(body.title)
         /\ t.status = (IF body.status = Undefined THEN "pending"
                        ELSE Get(body.status))
         /\ last'.task = t

\* C5 as stated: a create with an empty or missing title is answered 400 and
\* stores nothing; any other create stores exactly one task, owned by the
\* caller, with the supplied status or pending.
C5_AsStated ==
    [][C5_Create =>
         IF C5_TitleMissing(last'.req.body) THEN C5_Rejected
         ELSE C5_Stored(last'.req.body)]_vars

\* C5 amended: a create with an empty or missing title, or with a supplied
\* status that is none of pending, in-progress and completed, is answered 400
\* and stores nothing; any other create stores exactly one task, owned by the
\* caller whatever the body says, with the supplied status or pending.
C5_CreateStoresOwnTask ==
    [][C5_Create =>
         IF \/ C5_TitleMissing(last'.req.body)
            \/ /\ last'.req.body.status # Undefined
               /\ Get(last'.req.body.status) \notin StatusEnum
         THEN C5_Rejected
         ELSE C5_Stored(last'.req.body)]_vars

\* A task was created from a body that names another user as user_id and
\* supplies a status and a description.
C5_Witness ==
    /\ last.req.op = "create"
    /\ last.code = 201
    /\ last.req.body.user_id # Undefined
    /\ Get(last.req.body.user_id) # last.user.id
    /\ last.task.status = "in-progress"
    /\ last.task.description = Val("d")
    /\ last.task \in tasks

(* ------------------------------- C6 ----------------------------------- *)
\* The step answers an update of an authenticated caller that supplies none
\* of title, description and status, on the id of the stored task t.
C6_NoFields(t) ==
    /\ RequestStep
    /\ last'.req.op = "update"
    /\ last'.user # NoUser
    /\ last'.req.id = t.id
    /\ last'.req.body.title = Undefined
    /\ last'.req.body.description = Undefined
    /\ last'.req.body.status = Undefined

C6_ValidationError ==
    /\ last'.code = 400
    /\ "message" \in DOMAIN last'
    /\ last'.message = "No fields to update"

\* C6 as stated: an update that supplies no field is answered 400 'No fields
\* to update' and leaves the task unchanged.
C6_AsStated ==
    [][\A t \in tasks : C6_NoFields(t) => C6_ValidationError /\ tasks' = tasks]_vars

\* C6 amended: an update that supplies no field leaves the task unchanged; it
\* is answered 400 'No fields to update' when the caller is the task's owner
\* or an admin, and 403 otherwise.
C6_NoFieldsRejected ==
    [][\A t \in tasks :
         C6_NoFields(t) =>
           /\ tasks' = tasks
           /\ IF last'.user.role = "admin" \/ t.user_id = last'.user.id
              THEN C6_ValidationError
              ELSE last'.code = 403]_vars

\* The owner of a stored task sent an update without fields, with a user_id.
C6_Witness ==
    /\ last.req.op = "update"
    /\ last.code = 400
    /\ "message" \in DOMAIN last
    /\ last.req.body.user_id # Undefined
    /\ \E t \in tasks : t.id = last.req.id /\ t.user_id = last.user.id

(* ------------------------------- C7 ----------------------------------- *)
\* The last request was an update of an authenticated caller on an id no
\* task has (an update removes no task, so none had it at the request).
C7_Missing ==
    /\ last.req.op = "update"
    /\ last.user # NoUser
    /\ SelectTaskById(last.req.id) = {}

\* An update is answered 403 only for a task that exists.
C7_DeniedOnlyExisting ==
    (last.req.op = "update" /\ last.code = 403) =>
        SelectTaskById(last.req.id) # {}

\* C7 as stated: an update on an id no task has is answered 404 for every
\* caller, and 403 is answered only for a task that exists.
C7_AsStated == (C7_Missing => last.code = 404) /\ C7_DeniedOnlyExisting

\* C7 amended: an update on an id no task has, with a body that passes
\* validation, is answered 404 for every caller; one with a body that fails
\* validation is answered 400; 403 is answered only for a task that exists.
C7_NotFoundBeforeAccess ==
    /\ C7_Missing =>
         IF PutErrors(last.req.body) = {} THEN last.code = 404
         ELSE last.code = 400 /\ "errors" \in DOMAIN last
    /\ C7_DeniedOnlyExisting

\* An admin's update without fields on an id no task has was answered 404.
C7_Witness ==
    /\ C7_Missing
    /\ last.user.role = "admin"
    /\ last.req.body.status = Undefined
    /\ last.code = 404

(* ------------------------------- C8 ----------------------------------- *)
\* The row an update with this body makes of row t: each supplied field
\* takes the supplied value, every other column keeps its value.
C8_Applied(t, body) ==
    [id |-> t.id,
     title |-> IF body.title # Undefined THEN Get(body.title) ELSE t.title,
     description |-> IF body.description # Undefined THEN body.description
                     ELSE t.description,
     status |-> IF body.status # Undefined THEN Get(body.status) ELSE t.status,
     user_id |-> t.user_id,
     created_at |-> t.created_at]

\* C8: a successful update replaces the task by the row with the supplied
\* fields applied, the owner kept, and returns it; no other task changes.
C8_OnlySuppliedFieldsChange ==
    [][(RequestStep /\ last'.req.op = "update" /\ last'.code = 200) =>
         \E t \in tasks :
             /\ t.id = last'.req.id
             /\ tasks' = (tasks \ {t}) \cup {C8_Applied(t, last'.req.body)}
             /\ last'.task = C8_Applied(t, last'.req.body)]_vars

\* An admin updated another user's task, next to a second stored task, with a
\* body that sets the description to '' and names a user_id.
C8_Witness ==
    /\ last.req.op = "update"
    /\ last.code = 200
    /\ last.user.role = "admin"
    /\ last.task.user_id # last.user.id
    /\ Cardinality(tasks) = 2
    /\ \/ last.req.body.description = Val("")
       \/ last.req.body.user_id # Undefined

(* ------------------------------- C9 ----------------------------------- *)
TaskOps == {"list", "get", "create", "update", "delete"}

\* C9: a task request whose token is absent, forged or expired is
\* answered 401 with no task data, and changes no stored task.
C9_TokenRequired ==
    [][(/\ RequestStep
        /\ last'.req.op \in TaskOps
        /\ (last'.req.token.kind # "jwt" \/ last'.req.token.expired)) =>
         /\ last'.code = 401
         /\ DOMAIN last' = {"req", "user", "code"}
         /\ tasks' = tasks
         /\ nextTaskId' = nextTaskId]_vars

\* A delete with an expired token was answered 401 and the task is still
\* stored.
C9_Witness ==
    /\ last.req.op = "delete"
    /\ last.code = 401
    /\ last.req.token.kind = "jwt"
    /\ last.req.token.expired
    /\ \E t \in tasks : t.id = last.req.id

(* ------------------------------- C10 ---------------------------------- *)
\* A successful register appends one row with role user and answers with a
\* token of the new id, the username and role user, and the public fields.
C10_Registered ==
    (last'.req.op = "register" /\ last'.code = 201) =>
        /\ Len(users') = Len(users) + 1
        /\ SubSeq(users', 1, Len(users)) = users
        /\ tasks' = tasks
        /\ LET id == Len(users')
               row == users'[id]
           IN  /\ row.username = last'.req.username
               /\ row.email = last'.req.email
               /\ row.role = "user"
               /\ bcryptCompare(last'.req.password, row.password)
               /\ last'.token = jwtSign(id, row.username, "user", now)
               /\ last'.user = [id |-> id, username |-> row.username,
                                email |-> row.email, role |-> "user"]
               /\ DOMAIN last' = {"req", "code", "message", "token", "user"}

\* A successful login answers with a token of the id, username and role of
\* the stored user that has the email.
C10_LoggedIn ==
    (last'.req.op = "login" /\ last'.code = 200) =>
        \E i \in DOMAIN users :
            /\ users[i].email = last'.req.email
            /\ last'.token.id = i
            /\ last'.token.username = users[i].username
            /\ last'.token.role = users[i].role
            /\ last'.user = [id |-> i, username |-> users[i].username,
                             email |-> users[i].email, role |-> users[i].role]

\* C10: a successful register stores exactly one new user with role user and
\* returns a token with that user's id, username and role user, together with
\* the public fields and never the hash; a successful login returns a token
\* with the id, username and role of the stored user matched by email.
C10_TokenMatchesUser == [][RequestStep => C10_Registered /\ C10_LoggedIn]_vars

\* A second user registered.
C10_Witness ==
    /\ last.req.op = "register"
    /\ last.code = 201
    /\ Len(users) >= 2
    /\ users[last.user.id].role = "user"

C12_UpdateAnswers(c) == calls[c].pc = "put-reread" /\ calls'[c].pc = "done"
C12_DeleteAnswers(c) == calls[c].pc = "del-mutate" /\ calls'[c].pc = "done"

\* The row has every field the body supplies at the supplied value.
C12_Supplied(row, body) ==
    /\ body.title # Undefined => row.title = Get(body.title)
    /\ body.description # Undefined => row.description = body.description
    /\ body.status # Undefined => row.status = Get(body.status)

\* The answer of an update carries the row of the request's id with the
\* supplied fields applied.
C12_ReturnsApplied(c) ==
    /\ last'.code = 200
    /\ "task" \in DOMAIN last'
    /\ last'.task.id = calls[c].req.id
    /\ C12_Supplied(last'.task, calls[c].req.body)

\* C12 as stated: every update that answers success returns the row with the
\* supplied fields applied, and every delete that answers success removed a
\* task that was stored when its DELETE ran, under every interleaving.
C12_AsStated ==
    [][\A c \in DOMAIN calls :
         /\ C12_UpdateAnswers(c) => C12_ReturnsApplied(c)
         /\ C12_DeleteAnswers(c) =>
              /\ last'.code = 200
              /\ SelectTaskById(calls[c].req.id) # {}]_vars

\* C12 amended: an update that answers success returns the stored row with
\* the supplied fields applied unless, between its existence check and its
\* re-read, another request's DELETE ran on the id or, between its UPDATE and
\* its re-read, another request's UPDATE did; it then returns the row as
\* stored at the re-read, or no row when the task is gone.  A delete that
\* answers success leaves no task with the id; it removed a task that was
\* stored when its DELETE ran unless another request's DELETE ran on the id
\* after its existence check.
C12_SuccessUnderInterleaving ==
    [][\A c \in DOMAIN calls :
         /\ C12_UpdateAnswers(c) =>
              /\ last'.code = 200
              /\ last'.message = "Task updated successfully"
              /\ IF ~calls[c].raced
                 THEN C12_ReturnsApplied(c) /\ last'.task \in tasks
                 ELSE IF "task" \in DOMAIN last'
                 THEN last'.task \in tasks /\ last'.task.id = calls[c].req.id
                 ELSE SelectTaskById(calls[c].req.id) = {}
         /\ C12_DeleteAnswers(c) =>
              /\ last'.code = 200
              /\ {t \in tasks' : t.id = calls[c].req.id} = {}
              /\ ~calls[c].raced => SelectTaskById(calls[c].req.id) # {}]_vars

\* An update answered success with its fields applied although another
\* update's statement ran on the same id between its existence check and its
\* UPDATE, and that other update is still waiting to re-read.
C12_Witness ==
    /\ last.req.op = "update"
    /\ last.code = 200
    /\ "task" \in DOMAIN last
    /\ C12_Supplied(last.task, last.req.body)
    /\ \E c \in DOMAIN calls :
           /\ calls[c].pc = "put-reread"
           /\ calls[c].req.id = last.req.id
           /\ calls[c].raced

(* ------------------------------- C13 ---------------------------------- *)
\* Every stored task has a non-empty title, one of the three statuses and an
\* owner in the users table.
C13_TasksWellFormed ==
    \A t \in tasks :
        /\ t.title # ""
        /\ t.status \in StatusEnum
        /\ t.user_id \in DOMAIN users

\* The step answers an update of the stored task t, by its owner or an
\* admin, with a body that supplies one of the three statuses and no title
\* that fails validation.
C13_StatusUpdate(t) ==
    /\ last'.req.op = "update"
    /\ last'.req.id = t.id
    /\ last'.user.role = "admin" \/ last'.user.id = t.user_id
    /\ last'.req.body.status # Undefined
    /\ Get(last'.req.body.status) \in StatusEnum
    /\ last'.req.body.title # Val("")

\* Such an update is answered 200 and leaves the task at the supplied
\* status, whatever its status was.
C13_NoTransitionRejected ==
    \A t \in tasks :
        C13_StatusUpdate(t) =>
            /\ last'.code = 200
            /\ \E u \in tasks' :
                   /\ u.id = t.id
                   /\ u.status = Get(last'.req.body.status)
                   /\ tasks' = (tasks \ {t}) \cup {u}

\* C13: after any sequence of create, update and delete requests every
\* stored task has a non-empty title, a status among pending, in-progress
\* and completed, and a user_id of an existing user; and an authorized update
\* moves the status from any of the three values to any of the three.
C13_WellFormedAnyTransition ==
    /\ []C13_TasksWellFormed
    /\ [][C13_NoTransitionRejected]_vars

\* A task created as completed was moved back to in-progress by an update,
\* next to a second stored task.
C13_Witness ==
    /\ last.req.op = "update"
    /\ last.code = 200
    /\ last.task.status = "in-progress"
    /\ last.task.title = "a"
    /\ last.task \in tasks
    /\ Cardinality(tasks) = 2
    /\ \A t \in tasks : t.id # last.task.id => t.status = "completed"

(* ------------------------------- C14 ---------------------------------- *)
\* The ids of the tasks the component lists after the step.
C14_Listed == {ui'.tasks[i].id : i \in DOMAIN ui'.tasks}

\* The step is the end of call c, and call d has ended before it and had
\* started from the same rendered list.
C14_EndsAfter(c, d) ==
    /\ c # d
    /\ calls[c].pc = "answered"
    /\ calls'[c].pc = "done"
    /\ calls[d].pc = "done"
    /\ calls[d].tasks = calls[c].tasks

\* C14: when a handleDelete or handleSubmit call ends, a task whose delete
\* the server confirmed to an earlier-ended call started from the same
\* rendered list is not listed, and a task whose create the server confirmed
\* to such a call is listed unless it has been deleted.
C14_ListFollowsServer ==
    [][\A c, d \in DOMAIN calls :
         C14_EndsAfter(c, d) =>
           /\ (calls[d].op = "delete" /\ calls[d].code = 200) =>
                  calls[d].id \notin C14_Listed
           /\ (calls[d].op = "create" /\ calls[d].code = 201) =>
                  \/ calls[d].id \in C14_Listed
                  \/ SelectTaskById(calls[d].id) = {}]_vars
====
